---- MODULE Spec2Model ----
(***************************************************************************)
(* Model of src/app.py: the procurement-notice search front-end.           *)
(*                                                                         *)
(*   fetch_nara_data  - tries the endpoint URLs of a search type in order  *)
(*   parse_items      - turns an accepted response into display items      *)
(*   format_datetime  - renders the compact upstream timestamps            *)
(*   main             - one run of the script: widgets, validation, search *)
(*                                                                         *)
(* Python values are tagged records, so that the dynamic checks of the     *)
(* code (truthiness, .get on something that is not a dict, isinstance)     *)
(* are decided the way the interpreter decides them.  A Python str is a    *)
(* sequence of one-character strings.                                      *)
(***************************************************************************)
EXTENDS Integers, Sequences, FiniteSets, TLC

VARIABLES
    \* ---- format_datetime called on its own
    f_in,        \* the value of an item's date field, or FieldAbsent
    f_out,       \* what format_datetime returned for it, or Pending
    \* ---- parse_items called on its own
    p_resp,      \* api_response, as fetch_nara_data returns it
    p_mode,      \* search_type
    p_out,       \* Pending, Raised, or the PyList parse_items returned
    cards,       \* the control render_item_card shows for each item
    \* ---- the application: runs of the script, one after another
    num_rows,    \* API_CONFIG['num_rows']
    cache,       \* the entries of st.cache_data: [args, value]
    pc,          \* "idle", "fetching" (in the loop), "fetched", "ended"
    runs,        \* script runs started so far
    inp,         \* the widget values and the secret this run reads
    fargs,       \* the arguments of this run's fetch_nara_data call
    hit,         \* whether the call was answered by the cache
    params,      \* the request parameters the call built
    idx,         \* enumerate(urls, 1): the position of the next URL
    calls,       \* the requests.get calls made by this call, with what came back
    log,         \* what this call logged
    result,      \* what fetch_nara_data returned
    ui,          \* what the run put on the page
    sent         \* every (args, params) pair ever sent upstream

fmtVars   == <<f_in, f_out>>
parseVars == <<p_resp, p_mode, p_out, cards>>
appState  == <<num_rows, cache, sent, runs>>
runVars   == <<pc, inp, fargs, hit, params, idx, calls, log, result, ui>>
appVars   == <<appState, runVars>>
vars      == <<fmtVars, parseVars, appVars>>

-----------------------------------------------------------------------------
(* Python values *)

PyNone      == [t |-> "none"]
PyStr(s)    == [t |-> "str", v |-> s]
PyDict(f)   == [t |-> "dict", v |-> f]
PyList(s)   == [t |-> "list", v |-> s]
\* an exception propagating out of an expression
Raised      == [t |-> "raise"]
\* the key is not in the dict (never a value: what .get falls back from)
FieldAbsent == [t |-> "absent"]
Pending     == [t |-> "pending"]

EmptyDict == [k \in {} |-> PyNone]

\* bool(x): None, "", {}, [] and () are false
Truthy(x) ==
    CASE x.t = "none" -> FALSE
      [] x.t \in {"str", "list", "tuple"} -> x.v # <<>>
      [] x.t = "dict" -> DOMAIN x.v # {}
      [] OTHER        -> FALSE

\* d.get(k, dflt); AttributeError when d is not a dict
PyGet(d, k, dflt) ==
    IF d.t # "dict" THEN Raised
    ELSE IF k \in DOMAIN d.v THEN d.v[k] ELSE dflt

\* a or b
PyOr(a, b) == IF a.t = "raise" THEN Raised ELSE IF Truthy(a) THEN a ELSE b

-----------------------------------------------------------------------------
(* format_datetime *)

\* s[a:b] of a str at least b long (0-based, end exclusive)
Slice(s, a, b) == SubSeq(s, a + 1, b)

Len12 == 12
Len8  == 8

format_datetime_short(date_str) ==
    IF Truthy(date_str) /\ Len(date_str.v) = Len12
    THEN PyStr(Slice(date_str.v, 0, 4) \o <<"-">> \o Slice(date_str.v, 4, 6) \o <<"-">>
               \o Slice(date_str.v, 6, 8) \o <<" ">> \o Slice(date_str.v, 8, 10)
               \o <<":">> \o Slice(date_str.v, 10, 11))
    ELSE IF Truthy(date_str) /\ Len(date_str.v) = Len8
    THEN PyStr(Slice(date_str.v, 0, 4) \o <<"-">> \o Slice(date_str.v, 4, 6) \o <<"-">>
               \o Slice(date_str.v, 6, 8))
    ELSE PyOr(date_str, PyStr(<<"-">>))

format_datetime(date_str) ==
    IF Truthy(date_str) /\ Len(date_str.v) = Len12
    THEN PyStr(Slice(date_str.v, 0, 4) \o <<"-">> \o Slice(date_str.v, 4, 6) \o <<"-">>
               \o Slice(date_str.v, 6, 8) \o <<" ">> \o Slice(date_str.v, 8, 10)
               \o <<":">> \o Slice(date_str.v, 10, 12))
    ELSE IF Truthy(date_str) /\ Len(date_str.v) = Len8
    THEN PyStr(Slice(date_str.v, 0, 4) \o <<"-">> \o Slice(date_str.v, 4, 6) \o <<"-">>
               \o Slice(date_str.v, 6, 8))
    ELSE PyOr(date_str, PyStr(<<"-">>))

\* item.get(fields['date'], ''), the argument parse_items passes
DateArg(field) == IF field.t = "absent" THEN PyStr(<<>>) ELSE field

-----------------------------------------------------------------------------
(* API_ENDPOINTS: "bid" is the bid-notice search type, "prespec" the      *)
(* pre-specification one                                                   *)

API_ENDPOINTS ==
    [bid |->
        [urls |-> <<"BidPublicInfoService02/getBidPblancListInfoServcPPSSrch",
                    "ad/BidPublicInfoService/getBidPblancListInfoServcPPSSrch">>,
         param_name |-> "bidNtceNm",
         fields |-> [title |-> "bidNtceNm", org |-> "dminsttNm", date |-> "bidClseDt",
                     link |-> "bidNtceDtlUrl", date_label |-> "closing date"]],
     prespec |->
        [urls |-> <<"ao/HrcspSsstndrdInfoService/getPublicPrcureThngInfoServcPPSSrch">>,
         param_name |-> "bfSpecNm",
         fields |-> [title |-> "bfSpecNm", org |-> "dminsttNm", date |-> "bfSpecRegDt",
                     link |-> "bfSpecDtlUrl", date_label |-> "registration date"]]]

SearchTypes == DOMAIN API_ENDPOINTS

-----------------------------------------------------------------------------
(* the validation fetch_nara_data applies to a parsed body *)

ResponseWord == PyStr(<<"r","e","s","p","o","n","s","e">>)
SuccessCode  == PyStr(<<"0","0">>)

\* 'response' in data: a key of a dict, an element of a list
HasResponse(data) ==
    IF data.t = "dict" THEN "response" \in DOMAIN data.v
    ELSE \E i \in DOMAIN data.v : data.v[i] = ResponseWord

\* data.get('response', {}).get('header', {}).get('resultCode')
result_code(data) ==
    PyGet(PyGet(PyGet(data, "response", PyDict(EmptyDict)), "header", PyDict(EmptyDict)),
          "resultCode", PyNone)

\* what lines 143-158 make of a parsed body.  "ok": the response is returned;
\* "schema", "business": logged, next URL; "unexpected": the membership test on
\* null (TypeError) or a .get on something that is no dict (AttributeError)
\* raised, and the last except clause caught it
Validate(data) ==
    IF data.t \notin {"dict", "list"} THEN "unexpected"
    ELSE IF ~HasResponse(data) THEN "schema"
    ELSE IF result_code(data) = Raised THEN "unexpected"
    ELSE IF Truthy(result_code(data)) /\ result_code(data) # SuccessCode THEN "business"
    ELSE "ok"

-----------------------------------------------------------------------------
(* parse_items *)

NoTitle    == PyStr(<<"(no title)">>)
NoOrg      == PyStr(<<"(no organisation)">>)
NoLink     == PyStr(<<"#">>)

\* the dict parse_items builds for one raw item; Raised when the item is no dict
ParseOne(item, fields) ==
    IF item.t # "dict" THEN Raised
    ELSE [title |-> PyOr(PyGet(item, fields.title, PyNone),
                      PyOr(PyGet(item, "prdctNm", PyNone),
                        PyOr(PyGet(item, "bidNtceNm", PyNone),
                          PyOr(PyGet(item, "bfSpecNm", PyNone), NoTitle)))),
          org   |-> PyGet(item, fields.org, NoOrg),
          date  |-> format_datetime(PyGet(item, fields.date, PyStr(<<>>))),
          link  |-> PyGet(item, fields.link, NoLink),
          date_label |-> fields.date_label,
          raw   |-> item]

\* api_response.get('data', {}).get('response', {}).get('body', {})
BodyOf(api_response) ==
    PyGet(PyGet(PyGet(PyDict(api_response), "data", PyDict(EmptyDict)),
                "response", PyDict(EmptyDict)),
          "body", PyDict(EmptyDict))

\* the list the loop runs over: a dict is iterated by its keys
NoWrap(items) == IF items.t = "dict" THEN [i \in 1..Cardinality(DOMAIN items.v) |-> PyStr(<<"key">>)]
                 ELSE items.v

\* if not isinstance(items, list): items = [items]
AsList(items) == IF items.t # "list" THEN <<items>> ELSE items.v

\* Raised, or the list of parsed items
parse_items(api_response, search_type) ==
    LET items  == PyGet(BodyOf(api_response), "items", PyNone)
        fields == API_ENDPOINTS[search_type].fields
    IN  IF items = Raised THEN Raised
        ELSE IF ~Truthy(items) THEN PyList(<<>>)
        ELSE LET lst == AsList(items)
                 out == [i \in DOMAIN lst |-> ParseOne(lst[i], fields)]
             IN  IF \E i \in DOMAIN out : out[i] = Raised THEN Raised ELSE PyList(out)

\* render_item_card: the link button is shown unless the link is '#'
render_item_card(item) == IF item.link # NoLink THEN "link_button" ELSE "caption"

-----------------------------------------------------------------------------
(* format_datetime on every date-field value up to MaxStrLen characters *)

MaxStrLen == 13
DateChars == {"0", "2"}
DateStrs  == UNION {[1..n -> DateChars] : n \in 0..MaxStrLen}
DateFieldValues == {FieldAbsent, PyNone} \cup {PyStr(s) : s \in DateStrs}

ParseIdle == /\ p_resp = Pending /\ p_mode = "" /\ p_out = Pending /\ cards = <<>>

DefaultNumRows == 30

NoRun ==
    /\ inp = Pending /\ fargs = Pending /\ hit = FALSE /\ params = Pending /\ idx = 0
    /\ calls = <<>> /\ log = <<>> /\ result = Pending /\ ui = Pending

AppIdle ==
    /\ num_rows = DefaultNumRows /\ cache = {} /\ sent = {} /\ runs = 0
    /\ pc = "idle" /\ NoRun

InitFmt ==
    /\ f_in \in DateFieldValues
    /\ f_out = Pending
    /\ ParseIdle
    /\ AppIdle

FormatDate ==
    /\ f_out = Pending
    /\ f_out' = format_datetime(DateArg(f_in))
    /\ UNCHANGED <<f_in, parseVars, appVars>>

NextFmt == FormatDate
SpecFmt == InitFmt /\ [][NextFmt]_vars

IsSep(c) == c \in {"-", " ", ":"}
Digits(s) == SelectSeq(s, LAMBDA c : ~IsSep(c))

\* C8: a 12-character value is rendered YYYY-MM-DD HH:MM, an 8-character value
\* YYYY-MM-DD, an empty or absent value "-", and a value of any other length is
\* returned as it came.
C8_DateFormatting ==
    f_out # Pending =>
        CASE f_in \in {FieldAbsent, PyNone}  -> f_out = PyStr(<<"-">>)
          [] f_in.v = <<>>                   -> f_out = PyStr(<<"-">>)
          [] Len(f_in.v) = 12 ->
                /\ f_out.t = "str" /\ Len(f_out.v) = 16
                /\ f_out.v[5] = "-" /\ f_out.v[8] = "-"
                /\ f_out.v[11] = " " /\ f_out.v[14] = ":"
                /\ Digits(f_out.v) = f_in.v
          [] Len(f_in.v) = 8 ->
                /\ f_out.t = "str" /\ Len(f_out.v) = 10
                /\ f_out.v[5] = "-" /\ f_out.v[8] = "-"
                /\ Digits(f_out.v) = f_in.v
          [] OTHER -> f_out = f_in

C8_Witness ==
    /\ f_in = PyStr(<<"2","0","2","2","0","2","0","2","0","0","2","0">>)
    /\ f_out = PyStr(<<"2","0","2","2","-","0","2","-","0","2"," ","0","0",":","2","0">>)

-----------------------------------------------------------------------------
(* parse_items on every response fetch_nara_data can return *)

\* a dict from a record of values in which FieldAbsent stands for "no such key"
MkDict(c) == PyDict([k \in {k \in DOMAIN c : c[k].t # "absent"} |-> c[k]])

Title(c) == PyStr(<<c>>)
Date12   == PyStr(<<"2","0","2","4","0","4","0","5","1","8","0","0">>)
Date8    == PyStr(<<"2","0","2","4","0","4","0","5">>)
LinkVals == {FieldAbsent, PyNone, PyStr(<<>>), PyStr(<<"http://detail">>)}

\* the raw items of the upstream: any subset of the fields the code reads
RawItems ==
    {MkDict(c) : c \in [bidNtceNm     : {FieldAbsent, PyStr(<<>>), Title("bid title")},
                        bfSpecNm      : {FieldAbsent, PyStr(<<>>), Title("spec title")},
                        prdctNm       : {FieldAbsent, Title("product")},
                        dminsttNm     : {FieldAbsent, PyStr(<<"City Office">>)},
                        bidClseDt     : {FieldAbsent, Date12},
                        bfSpecRegDt   : {FieldAbsent, Date8},
                        bidNtceDtlUrl : LinkVals,
                        bfSpecDtlUrl  : LinkVals]}

\* the items that follow the first one in a longer list
MoreItems ==
    {PyDict(EmptyDict),
     MkDict([bidNtceNm |-> Title("bid title"), bfSpecNm |-> Title("spec title"),
             bidNtceDtlUrl |-> PyStr(<<>>)])}

\* body.items: missing, null, "", [], one bare item, a list of one or of two
ItemsShapes ==
    {FieldAbsent, PyNone, PyStr(<<>>), PyList(<<>>)}
    \cup RawItems
    \cup {PyList(<<x>>) : x \in RawItems}
    \cup {PyList(<<x, y>>) : x \in RawItems, y \in MoreItems}

Bodies(shapes)  == {FieldAbsent, PyNone} \cup {MkDict([items |-> i]) : i \in shapes}
Headers ==
    {FieldAbsent, PyNone}
    \cup {MkDict([resultCode |-> c]) :
            c \in {FieldAbsent, PyNone, PyStr(<<>>), SuccessCode, PyStr(<<"9","9">>)}}

\* the bodies an upstream can answer with: {response: {header, body}}, a response
\* that is null, no response key, a top-level list, and null
Datas(headers, bodies) ==
    {MkDict([response |-> MkDict([header |-> h, body |-> b])]) : h \in headers, b \in bodies}
    \cup {MkDict([response |-> PyNone]), PyDict(EmptyDict),
          PyList(<<ResponseWord>>), PyList(<<>>), PyNone}

ParseHeaders == {FieldAbsent, PyNone, MkDict([resultCode |-> SuccessCode])}

InitParse ==
    /\ p_mode \in SearchTypes
    /\ \E d \in Datas(ParseHeaders, Bodies(ItemsShapes)) :
          /\ Validate(d) = "ok"
          /\ p_resp = [data |-> d, url |-> API_ENDPOINTS[p_mode].urls[1], attempt |-> 1]
    /\ p_out = Pending
    /\ cards = <<>>
    /\ f_in = FieldAbsent /\ f_out = Pending
    /\ AppIdle

\* items = parse_items(api_response, search_type)
ParseItems ==
    /\ p_out = Pending
    /\ p_out' = parse_items(p_resp, p_mode)
    /\ UNCHANGED <<p_resp, p_mode, cards, fmtVars, appVars>>

\* for item in items: render_item_card(item)
RenderCards ==
    /\ p_out.t = "list" /\ p_out.v # <<>> /\ cards = <<>>
    /\ cards' = [i \in DOMAIN p_out.v |-> render_item_card(p_out.v[i])]
    /\ UNCHANGED <<p_resp, p_mode, p_out, fmtVars, appVars>>

NextParse == ParseItems \/ RenderCards
SpecParse == InitParse /\ [][NextParse]_vars

\* d[k] where d is a dict holding k, FieldAbsent otherwise
Nav(d, k) == IF d.t = "dict" /\ k \in DOMAIN d.v THEN d.v[k] ELSE FieldAbsent
ItemsIn(resp) == Nav(Nav(Nav(resp.data, "response"), "body"), "items")

\* C6: on an accepted response whose body.items is absent or null (the body itself
\* may be missing or null) parse_items returns the empty list and does not raise.
C6_EmptyWhenItemsMissing ==
    (p_out # Pending /\ ItemsIn(p_resp).t \in {"absent", "none"}) => p_out = PyList(<<>>)

WithItems(resp, i) ==
    [resp EXCEPT !.data.v["response"].v["body"].v["items"] = i]

\* C7 as claimed: for every raw item object X, items = X gives the same one-element
\* list as items = [X].
C7_BareEqualsWrapped ==
    (p_out # Pending /\ ItemsIn(p_resp).t = "dict") =>
        /\ p_out = parse_items(WithItems(p_resp, PyList(<<ItemsIn(p_resp)>>)), p_mode)
        /\ p_out.t = "list" /\ Len(p_out.v) = 1

\* C7 as amended: for every raw item object X that has at least one field,
\* items = X gives the same one-element list as items = [X].
C7_NonEmptyBareEqualsWrapped ==
    (p_out # Pending /\ ItemsIn(p_resp).t = "dict" /\ Truthy(ItemsIn(p_resp))) =>
        /\ p_out = parse_items(WithItems(p_resp, PyList(<<ItemsIn(p_resp)>>)), p_mode)
        /\ p_out.t = "list" /\ Len(p_out.v) = 1

C7_Witness ==
    /\ p_out.t = "list" /\ Len(p_out.v) = 1
    /\ ItemsIn(p_resp).t = "dict"
    /\ p_out.v[1].raw = ItemsIn(p_resp)
    /\ p_out.v[1].title = Title("product")

\* C9: the link of every parsed item is the absent-marker '#' or a non-empty
\* string, never the empty string.
C9_LinkNeverEmpty ==
    p_out.t = "list" =>
        \A i \in DOMAIN p_out.v : p_out.v[i].link # PyStr(<<>>)

-----------------------------------------------------------------------------
(* API_CONFIG and the helpers of main *)

PageNo      == 1
TimeoutSecs == 15
HttpOk      == 200
RowStep     == 10

DigitChars == <<"0", "1", "2", "3", "4", "5", "6", "7", "8", "9">>

\* str(n) of a natural number
RECURSIVE Str(_)
Str(n) == IF n < 10 THEN <<DigitChars[n + 1]>>
          ELSE Str(n \div 10) \o <<DigitChars[(n % 10) + 1]>>

\* n as exactly w digits, zero-padded (%Y, %m, %d)
RECURSIVE Pad(_, _)
Pad(n, w) == IF w = 0 THEN <<>> ELSE Pad(n \div 10, w - 1) \o <<DigitChars[(n % 10) + 1]>>

\* d.strftime("%Y%m%d")
Strftime(d) == Pad(d.y, 4) \o Pad(d.m, 2) \o Pad(d.d, 2)

\* urllib.parse.unquote on a str whose elements are characters or %XX escapes
unquote(s) ==
    [i \in DOMAIN s |-> CASE s[i] = "%2B" -> "+"
                          [] s[i] = "%3D" -> "="
                          [] OTHER        -> s[i]]

\* Raised stands for st.secrets raising (no secrets file)
get_api_key(secret) ==
    IF secret = Raised THEN PyNone
    ELSE IF ~Truthy(secret) THEN PyNone
    ELSE secret

\* any non-empty selection is taken as a range
validate_date_range_lax(date_range) ==
    IF Len(date_range) = 0 THEN PyNone
    ELSE [t |-> "tuple",
          v |-> <<Strftime(date_range[1]) \o <<"0", "0", "0", "0">>,
                  Strftime(date_range[Len(date_range)]) \o <<"2", "3", "5", "9">>>>]

validate_date_range(date_range) ==
    IF Len(date_range) # 2 THEN PyNone
    ELSE [t |-> "tuple",
          v |-> <<Strftime(date_range[1]) \o <<"0", "0", "0", "0">>,
                  Strftime(date_range[2]) \o <<"2", "3", "5", "9">>>>]

\* params, as fetch_nara_data builds it before the loop
BuildParams(a, rows) ==
    [serviceKey |-> unquote(a.service_key.v),
     numOfRows  |-> Str(rows),
     pageNo     |-> Str(PageNo),
     inqryDiv   |-> <<"1">>,
     inqryBgnDt |-> a.start_date,
     inqryEndDt |-> a.end_date,
     keyword    |-> [name |-> API_ENDPOINTS[a.search_type].param_name, value |-> a.keyword.v],
     type       |-> "json"]

-----------------------------------------------------------------------------
(* what a requests.get call can come back with *)

Unparseable == [t |-> "garbage"]

NetworkOutcomes ==
    {[kind |-> "timeout"], [kind |-> "neterr"], [kind |-> "http", status |-> 500],
     [kind |-> "http", status |-> HttpOk, body |-> Unparseable]}

Answer(data) == [kind |-> "http", status |-> HttpOk, body |-> data]

SampleItem ==
    MkDict([bidNtceNm |-> Title("bid title"), dminsttNm |-> PyStr(<<"City Office">>),
            bidClseDt |-> Date12])

\* every outcome the loop body tells apart, over every envelope shape
Upstream ==
    NetworkOutcomes
    \cup {Answer(d) : d \in Datas(Headers, Bodies({PyNone, PyList(<<SampleItem>>)}))}

\* for runs that follow one another: an HTTP error, a business error and a success
SessionUpstream ==
    {[kind |-> "http", status |-> 500],
     Answer(MkDict([response |->
         MkDict([header |-> MkDict([resultCode |-> PyStr(<<"9", "9">>)])])])),
     Answer(MkDict([response |->
         MkDict([header |-> MkDict([resultCode |-> SuccessCode]),
                 body   |-> MkDict([items |-> PyList(<<SampleItem>>)])])]))}

\* the branch of the loop body an outcome ends in; an unparseable body raises
\* requests' JSONDecodeError, a ValueError that newer versions of requests also
\* make a RequestException, so either except clause may be the one that logs it
Classes(o) ==
    CASE o.kind = "timeout"  -> {"timeout"}
      [] o.kind = "neterr"   -> {"network"}
      [] o.status # HttpOk   -> {"http"}
      [] o.body = Unparseable -> {"network", "json"}
      [] OTHER               -> {Validate(o.body)}

LogEntrySilentHttp(class, url) ==
    IF class = "http" THEN <<>>
    ELSE <<[level |-> IF class \in {"schema", "business"} THEN "warning" ELSE "error",
            class |-> class, url |-> url]>>

\* the logger call of a failed attempt
LogEntry(class, url) ==
    <<[level |-> IF class \in {"http", "schema", "business"} THEN "warning" ELSE "error",
       class |-> class, url |-> url]>>

-----------------------------------------------------------------------------
(* one run of the script *)

MaxRuns == 2

Dates      == {[y |-> 2024, m |-> 4, d |-> 1], [y |-> 2024, m |-> 4, d |-> 8]}
DateRanges == UNION {[1..n -> Dates] : n \in 0..2}
Keywords   == {PyStr(<<>>), PyStr(<<"design">>)}
Secrets    == {Raised, PyNone, PyStr(<<>>), PyStr(<<"k", "%2B", "%3D">>)}
RowChoices == {DefaultNumRows, DefaultNumRows + RowStep}

Inputs ==
    [search_type : SearchTypes, keyword : Keywords, date_range : DateRanges,
     custom_rows : RowChoices, search_btn : BOOLEAN, secret : Secrets]

Cached(a) == {e \in cache : e.args = a}

Message(m) == [msg |-> m, cards |-> <<>>]

\* main, from its first line to the fetch_nara_data call: the advanced setting
\* is written to API_CONFIG, then the button, the keyword, the key and the
\* dates are checked in that order, and the cached function is called
main ==
    /\ pc = "idle"
    /\ runs < MaxRuns
    /\ \E i \in Inputs :
        LET rows        == IF i.custom_rows # num_rows THEN i.custom_rows ELSE num_rows
            service_key == get_api_key(i.secret)
            date_result == validate_date_range(i.date_range)
            a == [search_type |-> i.search_type, keyword |-> i.keyword,
                  start_date |-> date_result.v[1], end_date |-> date_result.v[2],
                  service_key |-> service_key]
            stop(m) == /\ ui' = Message(m) /\ pc' = "ended"
                       /\ UNCHANGED <<fargs, hit, params, idx, result>>
        IN  /\ runs' = runs + 1
            /\ num_rows' = rows
            /\ inp' = i
            /\ calls' = <<>> /\ log' = <<>>
            /\ UNCHANGED <<cache, sent>>
            /\ CASE ~i.search_btn        -> stop("form")
                 [] ~Truthy(i.keyword)   -> stop("warning: enter a keyword")
                 [] ~Truthy(service_key) -> stop("error: no API key")
                 [] ~Truthy(date_result) -> stop("warning: select both dates")
                 [] Cached(a) # {} ->
                        /\ fargs' = a /\ hit' = TRUE
                        /\ result' = (CHOOSE e \in Cached(a) : TRUE).value
                        /\ pc' = "fetched"
                        /\ UNCHANGED <<params, idx, ui>>
                 [] OTHER ->
                        /\ fargs' = a /\ hit' = FALSE
                        /\ params' = BuildParams(a, rows)
                        /\ idx' = 1
                        /\ pc' = "fetching"
                        /\ UNCHANGED <<result, ui>>
    /\ UNCHANGED <<fmtVars, parseVars>>

\* one turn of the loop of fetch_nara_data: the call to urls[idx] comes back
\* with an outcome of the upstream
Attempt(upstream) ==
    /\ pc = "fetching"
    /\ \E o \in upstream : \E class \in Classes(o) :
        LET urls == API_ENDPOINTS[fargs.search_type].urls
            url  == urls[idx]
            ret(r) == /\ result' = r
                      /\ cache' = cache \cup {[args |-> fargs, value |-> r]}
                      /\ pc' = "fetched"
                      /\ idx' = idx
        IN  /\ calls' = Append(calls, [url |-> url, params |-> params,
                                       timeout |-> TimeoutSecs, outcome |-> o])
            /\ sent' = sent \cup {[args |-> fargs, params |-> params]}
            /\ IF class = "ok"
               THEN /\ log' = log \o <<[level |-> "info", class |-> "attempt", url |-> url],
                                       [level |-> "info", class |-> "success", url |-> url]>>
                    /\ ret([data |-> o.body, url |-> url, attempt |-> idx])
               ELSE /\ log' = log \o <<[level |-> "info", class |-> "attempt", url |-> url]>>
                                  \o LogEntry(class, url)
                    /\ IF idx = Len(urls)
                       THEN ret(PyNone)
                       ELSE /\ idx' = idx + 1
                            /\ UNCHANGED <<result, cache, pc>>
    /\ UNCHANGED <<num_rows, runs, inp, fargs, hit, params, ui, fmtVars, parseVars>>

\* display_results
display_results(items) ==
    IF items.v # <<>>
    THEN [msg |-> "success", cards |-> [k \in DOMAIN items.v |-> render_item_card(items.v[k])]]
    ELSE Message("info: no results")

\* main, after the fetch_nara_data call; an exception leaves main and is shown
\* by the handler around it
Finish ==
    /\ pc = "fetched"
    /\ ui' = IF result # PyNone
             THEN LET items == parse_items(result, inp.search_type)
                  IN  IF items = Raised THEN Message("fatal error") ELSE display_results(items)
             ELSE Message("error: all endpoints failed")
    /\ pc' = "ended"
    /\ UNCHANGED <<appState, inp, fargs, hit, params, idx, calls, log, result,
                   fmtVars, parseVars>>

\* the run is over: its locals are gone, the page waits for the next interaction
ScriptEnd ==
    /\ pc = "ended"
    /\ pc' = "idle"
    /\ inp' = Pending /\ fargs' = Pending /\ hit' = FALSE /\ params' = Pending /\ idx' = 0
    /\ calls' = <<>> /\ log' = <<>> /\ result' = Pending /\ ui' = Pending
    /\ UNCHANGED <<appState, fmtVars, parseVars>>

\* ttl=600: an entry of the cache expires
ExpireCache ==
    /\ pc = "idle"
    /\ \E e \in cache : cache' = cache \ {e}
    /\ UNCHANGED <<num_rows, sent, runs, runVars, fmtVars, parseVars>>

Init ==
    /\ AppIdle
    /\ ParseIdle
    /\ f_in = FieldAbsent /\ f_out = Pending

Next == main \/ Attempt(SessionUpstream) \/ Finish \/ ScriptEnd \/ ExpireCache
Spec == Init /\ [][Next]_vars

-----------------------------------------------------------------------------
(* one uncached call of fetch_nara_data, against every upstream behaviour *)

InitResolve ==
    /\ ParseIdle
    /\ f_in = FieldAbsent /\ f_out = Pending
    /\ cache = {} /\ sent = {} /\ runs = 1
    /\ \E i \in Inputs :
        /\ i.search_btn /\ Truthy(i.keyword)
        /\ Truthy(get_api_key(i.secret)) /\ Truthy(validate_date_range(i.date_range))
        /\ inp = i
        /\ num_rows = i.custom_rows
        /\ fargs = [search_type |-> i.search_type, keyword |-> i.keyword,
                    start_date |-> validate_date_range(i.date_range).v[1],
                    end_date |-> validate_date_range(i.date_range).v[2],
                    service_key |-> get_api_key(i.secret)]
        /\ params = BuildParams(fargs, num_rows)
    /\ hit = FALSE /\ idx = 1 /\ pc = "fetching"
    /\ calls = <<>> /\ log = <<>> /\ result = Pending /\ ui = Pending

NextResolve == Attempt(Upstream) \/ Finish
SpecResolve == InitResolve /\ [][NextResolve]_vars

-----------------------------------------------------------------------------
(* properties of fetch_nara_data, on one uncached call *)

Urls == API_ENDPOINTS[fargs.search_type].urls

\* a structurally valid success as the specification words it: HTTP 200, a
\* parseable body that is an object with a 'response' key, and a
\* header.resultCode that is absent (or null) or equal to "00"
ValidSuccess(o) ==
    /\ o.kind = "http" /\ o.status = 200 /\ o.body # Unparseable
    /\ o.body.t = "dict" /\ "response" \in DOMAIN o.body.v
    /\ o.body.v["response"].t = "dict"
    /\ Nav(o.body.v["response"], "header").t \in {"absent", "dict"}
    /\ LET rc == Nav(Nav(o.body.v["response"], "header"), "resultCode")
       IN  rc.t \in {"absent", "none"} \/ rc = PyStr(<<"0", "0">>)

InOrder == \A k \in DOMAIN calls : k <= Len(Urls) /\ calls[k].url = Urls[k]

Returned == pc \in {"fetched", "ended"} /\ ~hit

\* C1: the URLs are called in list order and the call returns the response of the
\* first URL whose attempt is a structurally valid success, with that URL and its
\* 1-based position; nothing after it is called and no earlier valid success is
\* passed over.
C1_FirstValidSuccessWins ==
    Returned =>
        /\ InOrder
        /\ result # PyNone =>
              /\ result.attempt = Len(calls)
              /\ result.url = Urls[result.attempt]
              /\ result.data = calls[result.attempt].outcome.body
              /\ ValidSuccess(calls[result.attempt].outcome)
        /\ \A k \in DOMAIN calls : k < Len(calls) => ~ValidSuccess(calls[k].outcome)
        /\ result = PyNone => \A k \in DOMAIN calls : ~ValidSuccess(calls[k].outcome)

\* C2: when every URL of the mode has failed (non-200, timeout or connection
\* error, unparseable body, no 'response' key, resultCode other than "00"), the
\* call returns None, having called each URL exactly once, in order.
C2_ExhaustedReturnsNone ==
    Returned =>
        /\ (Len(calls) = Len(Urls) /\ \A k \in DOMAIN calls : ~ValidSuccess(calls[k].outcome))
              => result = PyNone
        /\ result = PyNone => (InOrder /\ Len(calls) = Len(Urls))

FailureLog == SelectSeq(log, LAMBDA e : e.level # "info")

-----------------------------------------------------------------------------
(* properties of main, over runs that follow one another *)

\* the preconditions of a search: a keyword, a credential, two dates
Precondition(i) ==
    /\ i.keyword.v # <<>>
    /\ i.secret.t = "str" /\ i.secret.v # <<>>
    /\ Len(i.date_range) = 2

\* C4: a search that fails a precondition (no keyword, no credential, fewer than
\* two dates) is reported and never reaches fetch_nara_data: no endpoint is called.
C4_NoCallWithoutPreconditions ==
    (inp # Pending /\ inp.search_btn /\ ~Precondition(inp)) =>
        /\ pc = "ended"
        /\ fargs = Pending /\ result = Pending /\ calls = <<>>
        /\ ui.msg \in {"warning: enter a keyword", "error: no API key",
                       "warning: select both dates"}

C4_Witness ==
    /\ pc = "ended" /\ inp.search_btn
    /\ inp.keyword.v # <<>> /\ inp.secret = PyStr(<<>>) /\ Len(inp.date_range) = 2
    /\ ui.msg = "error: no API key" /\ calls = <<>>
    /\ sent # {}

\* s <= t for two strs of digits of the same length
RECURSIVE StrLeq(_, _)
StrLeq(s, t) ==
    IF s = <<>> THEN TRUE
    ELSE IF Head(s) # Head(t)
         THEN \E a, b \in DOMAIN DigitChars :
                 DigitChars[a] = Head(s) /\ DigitChars[b] = Head(t) /\ a < b
         ELSE StrLeq(Tail(s), Tail(t))

\* C5: the inqryBgnDt of every request sent upstream is not later than its
\* inqryEndDt.
C5_BeginNotAfterEnd ==
    \A k \in DOMAIN calls : StrLeq(calls[k].params.inqryBgnDt, calls[k].params.inqryEndDt)

\* C10: two calls with the same arguments send the same request parameters,
\* whatever was searched or set in between.
C10_SameArgsSameParams ==
    \A x, y \in sent : x.args = y.args => x.params = y.params

====
